---- MODULE Spec2Model ----
(***************************************************************************)
(* mkdocs-git-committers-plugin-2: GitCommittersPlugin (plugin.py).        *)
(*                                                                         *)
(* The plugin object, the persisted cache file page-authors.json, the git  *)
(* history the plugin reads and the calendar are the state.  One action    *)
(* per mkdocs hook (on_config, on_pre_build, on_page_context,              *)
(* on_post_build) and per step of the environment (a commit, a new day, a  *)
(* new process).                                                           *)
(*                                                                         *)
(* Strings are sequences of symbols; a symbol is a one-character string,   *)
(* or a fixed prefix such as "https://github.com/" taken as one symbol.    *)
(* A date string "%Y-%m-%d" is represented by its day number, the empty    *)
(* string '' by NoDate.                                                    *)
(***************************************************************************)
EXTENDS Integers, Sequences, FiniteSets, TLC

\* ------------------------------------------------------------- bounds
\* the calendar runs over the days 1..MaxDay
MaxDay == 2

\* the builds mkdocs starts
MaxBuilds == 2

\* the calls of list_contributors made in a row in one build
MaxCalls == 2

\* self.cache_date = '' and last_commit_date = "" : the empty date string
NoDate == 0

Days == 1..MaxDay

\* the source paths of the site's pages (page.file.src_path), in the order
\* mkdocs renders them
PageOrder == <<(<<"a.md">>), (<<"b.md">>)>>

SrcPaths == {PageOrder[i] : i \in 1..Len(PageOrder)}

\* config['docs_path']
DocsPath == <<"docs/">>

\* git_path = self.config['docs_path'] + page.file.src_path
GitPath(src_path) == DocsPath \o src_path

Paths == {GitPath(src) : src \in SrcPaths}

\* ------------------------------------------------------------- strings
\* str.lower() on one character
LowerChar(c) ==
  CASE c = "A" -> "a"
    [] c = "B" -> "b"
    [] OTHER -> c

\* code point of a character (the order Python compares strings by)
Ord(c) ==
  CASE c = "," -> 44
    [] c = "A" -> 65
    [] c = "B" -> 66
    [] c = "a" -> 97
    [] c = "b" -> 98
    [] OTHER -> 0

\* x['login'].lower()
Lower(s) == [i \in 1..Len(s) |-> LowerChar(s[i])]

\* Python's s < t on strings, from position i on
RECURSIVE StrLessFrom(_, _, _)
StrLessFrom(s, t, i) ==
  IF i > Len(t) THEN FALSE
  ELSE IF i > Len(s) THEN TRUE
  ELSE IF Ord(s[i]) < Ord(t[i]) THEN TRUE
  ELSE IF Ord(s[i]) > Ord(t[i]) THEN FALSE
  ELSE StrLessFrom(s, t, i + 1)

StrLess(s, t) == StrLessFrom(s, t, 1)

\* str.split(sep), from position i on, cur the piece so far
RECURSIVE SplitFrom(_, _, _, _)
SplitFrom(s, sep, i, cur) ==
  IF i > Len(s) THEN <<cur>>
  ELSE IF s[i] = sep THEN <<cur>> \o SplitFrom(s, sep, i + 1, <<>>)
  ELSE SplitFrom(s, sep, i + 1, Append(cur, s[i]))

Split(s, sep) == SplitFrom(s, sep, 1, <<>>)

\* ------------------------------------------------------------- authors
\* the author dict of a declared username
ManualAuthor(username, githuburl, avatar_url) ==
  [login |-> username, name |-> username,
   url |-> githuburl \o username, avatar |-> avatar_url \o username]

\* manual_authors: one author per piece of the authors field, none when the
\* page's metadata has no authors field ('authors' in page.meta is has_authors)
ManualAuthors(meta, githuburl, avatar_url) ==
  IF meta.has_authors
  THEN LET users == Split(meta.authors, ",")
       IN  [i \in 1..Len(users) |-> ManualAuthor(users[i], githuburl, avatar_url)]
  ELSE <<>>

\* the membership test written x == login: a dict never equals a string
HasLoginNever(authors, login) == FALSE

\* any(x['login'] == login for x in authors)
HasLogin(authors, login) == \E i \in 1..Len(authors) : authors[i].login = login

\* the loop over the blame ranges: a range whose user is null is skipped, a
\* login already collected or declared manually is skipped
RECURSIVE BlameLoop(_, _, _, _, _)
BlameLoop(ranges, i, blame_authors, manual_authors, githuburl) ==
  IF i > Len(ranges) THEN blame_authors
  ELSE LET user == ranges[i].user
       IN  IF ~ranges[i].has_user
           THEN BlameLoop(ranges, i + 1, blame_authors, manual_authors, githuburl)
           ELSE IF ~HasLogin(blame_authors, user.login) /\ ~HasLogin(manual_authors, user.login)
                THEN BlameLoop(ranges, i + 1,
                       Append(blame_authors,
                              [login |-> user.login, name |-> user.name,
                               url |-> githuburl \o user.login, avatar |-> user.avatarUrl]),
                       manual_authors, githuburl)
                ELSE BlameLoop(ranges, i + 1, blame_authors, manual_authors, githuburl)

\* the sort key without lower()
SortKeyCaseSensitive(x) == x.login

\* the sort key: x['login'].lower()
SortKey(x) == Lower(x.login)

\* list.sort is stable: x goes after every element whose key is not greater
RECURSIVE InsertSorted(_, _)
InsertSorted(sorted, x) ==
  IF sorted = <<>> THEN <<x>>
  ELSE IF StrLess(SortKey(x), SortKey(Head(sorted)))
       THEN <<x>> \o sorted
       ELSE <<Head(sorted)>> \o InsertSorted(Tail(sorted), x)

RECURSIVE SortFrom(_, _, _)
SortFrom(authors, i, acc) ==
  IF i > Len(authors) THEN acc
  ELSE SortFrom(authors, i + 1, InsertSorted(acc, authors[i]))

\* blame_authors.sort(key = lambda x: x['login'].lower())
SortAuthors(authors) == SortFrom(authors, 1, <<>>)

\* ------------------------------------------------------------- the cache file
\* the keys of a dict in a fixed order
RECURSIVE KeysInOrder(_)
KeysInOrder(keys) ==
  IF keys = {} THEN <<>>
  ELSE LET k == CHOOSE x \in keys : TRUE
       IN  <<k>> \o KeysInOrder(keys \ {k})

\* json.dumps({'cache_date': ..., 'page_authors': ...}): the document's members, the
\* page_authors object as its sequence of (key, value) members
Dumps(date, page_authors) ==
  LET keys == KeysInOrder(DOMAIN page_authors)
  IN  [cache_date |-> date,
       page_authors |-> [i \in 1..Len(keys) |-> <<keys[i], page_authors[keys[i]]>>]]

\* the dict of a JSON object's members: a later member of the same key wins
RECURSIVE DictOf(_, _, _)
DictOf(members, i, acc) ==
  IF i > Len(members) THEN acc
  ELSE DictOf(members, i + 1, (members[i][1] :> members[i][2]) @@ acc)

\* the load that reads the date and loses the records
LoadsDropsRecords(text) ==
  [cache_date |-> text.cache_date, page_authors |-> <<>>]

\* json.loads(f.read())
Loads(text) ==
  [cache_date |-> text.cache_date,
   page_authors |-> DictOf(text.page_authors, 1, <<>>)]

\* ------------------------------------------------------------- configuration
\* config['repository'] values: not specified, an owner without a name, owner/name
Repositories == {<<>>, <<"owner">>, <<"owner", "/", "repo">>}

\* config['enterprise_hostname'] values
Hostnames == {<<>>, <<"ghe.example.com">>}

AllConfigs ==
  [enabled : BOOLEAN, repository : Repositories, enterprise_hostname : Hostnames]

\* the configurations the builds are run with: the plugin disabled, enabled
\* without a repository, enabled with one
Configs ==
  {[enabled |-> FALSE, repository |-> <<"owner", "/", "repo">>, enterprise_hostname |-> <<>>],
   [enabled |-> TRUE, repository |-> <<>>, enterprise_hostname |-> <<>>],
   [enabled |-> TRUE, repository |-> <<"owner", "/", "repo">>, enterprise_hostname |-> <<>>]}

\* self.github_avatar_url
GithubAvatarUrl == <<"https://avatars.githubusercontent.com/">>

\* self.githuburl as on_config sets it
GithubUrl(enterprise_hostname) ==
  IF enterprise_hostname # <<>>
  THEN <<"https://">> \o enterprise_hostname \o <<"/">>
  ELSE <<"https://github.com/">>

\* ------------------------------------------------------------- inputs
NoMeta == [has_authors |-> FALSE, authors |-> <<>>]
Meta(authors) == [has_authors |-> TRUE, authors |-> authors]

User(login, name) ==
  [login |-> login, name |-> name, avatarUrl |-> <<"https://avatars.githubusercontent.com/u/">> \o login]

\* a blame range: commit.author.user is a user or null; has_author is FALSE when
\* commit.author itself is null or missing
Range(user) == [has_author |-> TRUE, has_user |-> TRUE, user |-> user]
NullUserRange == [has_author |-> TRUE, has_user |-> FALSE, user |-> User(<<>>, <<>>)]
NoAuthorRange == [has_author |-> FALSE, has_user |-> FALSE, user |-> User(<<>>, <<>>)]

\* what the POST of line 120 meets: no connection, an HTTP status >= 400, or a
\* 200 whose body is not JSON, lacks (or has null at) one of the levels
\* data.repository.ref.target.blame.ranges, or carries blame ranges
NetworkError == [kind |-> "network_error", status |-> 0, json |-> FALSE, null_at |-> "", ranges |-> <<>>]
HttpError(status) == [kind |-> "http_error", status |-> status, json |-> FALSE, null_at |-> "", ranges |-> <<>>]
NotJson == [kind |-> "ok", status |-> 200, json |-> FALSE, null_at |-> "", ranges |-> <<>>]
NullAt(level) == [kind |-> "ok", status |-> 200, json |-> TRUE, null_at |-> level, ranges |-> <<>>]
Blame(ranges) == [kind |-> "ok", status |-> 200, json |-> TRUE, null_at |-> "", ranges |-> ranges]

Levels == {"data", "repository", "ref", "target", "blame", "ranges"}

\* the front matter of the site's pages: a.md declares the author B, b.md
\* declares none
PageMeta(src_path) == IF src_path = <<"a.md">> THEN Meta(<<"B">>) ELSE NoMeta

\* the remote answers the builds meet

Responses ==
  {HttpError(404), NullAt("repository"),
   Blame(<<Range(User(<<"b">>, <<"Bob">>)), NullUserRange, Range(User(<<"B">>, <<"B.">>)),
           Range(User(<<"a">>, <<"Al">>))>>)}

\* the blame ranges a response is made of
MaxRanges == 2

RangeKinds ==
  {Range(User(<<"a">>, <<"Al">>)), Range(User(<<"B">>, <<"B.">>)),
   Range(User(<<"b">>, <<"Bob">>)), NullUserRange, NoAuthorRange}

RangeSeqs == UNION {[1..n -> RangeKinds] : n \in 0..MaxRanges}

\* every kind of front matter and of remote answer, for the resolution of one page
WideMetas ==
  {NoMeta, Meta(<<>>), Meta(<<"a">>), Meta(<<"b">>), Meta(<<"B", ",", "a">>),
   Meta(<<"a", ",", "a">>)}

WideResponses ==
  {NetworkError, HttpError(404), HttpError(500), NotJson}
    \cup {NullAt(level) : level \in Levels}
    \cup {Blame(ranges) : ranges \in RangeSeqs}

\* ------------------------------------------------------------- state
VARIABLES
  pc,                  \* where mkdocs is: "idle", "configured", "pages"
  config,              \* self.config, as mkdocs loaded it for the build
  enabled,             \* self.enabled
  localrepo,           \* whether on_config has set self.localrepo (and self.githuburl,
                       \*   self.github_avatar_url, self.github_token)
  githuburl,           \* self.githuburl
  cache_page_authors,  \* self.cache_page_authors: git path -> record
  cache_date,          \* self.cache_date
  file,                \* cache_dir/page-authors.json: whether it exists, the document
                       \*   written to it, and how much of the document is in it
                       \*   ("all", "part" or "none")
  today,               \* the day datetime.now() is in
  head,                \* git path -> authored day of the newest commit reachable from
                       \*   HEAD that touches it, NoDate when there is none
  touched,             \* git path -> a commit touching it landed after the last save
  rendered,            \* how many pages on_page_context was called for in this build
  builds,              \* the builds started so far
  saved,               \* the cache the last on_post_build wrote
  obs                  \* what the last step did: the hook called, its input,
                       \*   its result and the cache it found

vars == <<pc, config, enabled, localrepo, githuburl, cache_page_authors, cache_date,
          file, today, head, touched, rendered, builds, saved, obs>>

EmptyDict == <<>>

NoFile == [exists |-> FALSE, text |-> Dumps(NoDate, EmptyDict), written |-> "none"]

\* the file after open("w"), write and close of the document
WholeFile(text) == [exists |-> TRUE, text |-> text, written |-> "all"]

NoObs ==
  [op |-> "none", path |-> <<>>, meta |-> NoMeta, resp |-> NetworkError,
   outcome |-> "return", exc |-> "", authors |-> <<>>, date |-> NoDate,
   committers |-> <<>>, d |-> NoDate, hit |-> FALSE,
   history_reads |-> 0, remote_calls |-> 0,
   pre_cache |-> EmptyDict, pre_cache_date |-> NoDate]

\* GitCommittersPlugin.__init__: the attributes of a new plugin object
\* (localrepo and githuburl are not attributes of it yet)
NewPlugin ==
  [enabled |-> TRUE, localrepo |-> FALSE, githuburl |-> <<>>,
   cache_page_authors |-> EmptyDict, cache_date |-> NoDate]

Init ==
  /\ enabled = NewPlugin.enabled
  /\ localrepo = NewPlugin.localrepo
  /\ githuburl = NewPlugin.githuburl
  /\ cache_page_authors = NewPlugin.cache_page_authors
  /\ cache_date = NewPlugin.cache_date
  /\ pc = "idle"
  /\ config = [enabled |-> TRUE, repository |-> <<>>, enterprise_hostname |-> <<>>]
  /\ file = NoFile
  /\ today = 1
  /\ head = [p \in Paths |-> NoDate]
  /\ touched = [p \in Paths |-> FALSE]
  /\ rendered = 0
  /\ builds = 0
  /\ saved = Loads(NoFile.text)
  /\ obs = NoObs

\* ------------------------------------------------------------- list_contributors
\* the date of the first commit Commit.iter_items yields for the path, "" when
\* it yields none
LastCommitDate(path) == head[path]

\* the comparison of line 101 with its operands exchanged
DateBeforeReversed(a, b) == b < a

\* time.strptime(a, "%Y-%m-%d") < time.strptime(b, "%Y-%m-%d")
DateBefore(a, b) == a < b

\* the test of lines 100-101: the stored record is served
CacheFresh(path, last_commit_date) ==
  /\ path \in DOMAIN cache_page_authors
  /\ cache_date # NoDate
  /\ DateBefore(last_commit_date, cache_date)

\* the else branch of the try: the body is parsed and the ranges are walked; a
\* body that is not JSON or lacks a level raises there, outside the except clauses
Parses(resp) ==
  /\ resp.json
  /\ resp.null_at = ""
  /\ \A i \in 1..Len(resp.ranges) : resp.ranges[i].has_author

ParseError(resp) ==
  IF ~resp.json THEN "JSONDecodeError" ELSE "TypeError"

\* what a call of list_contributors did and gave
Returned(authors, date, cache, d, hit, remote_calls) ==
  [outcome |-> "return", exc |-> "", authors |-> authors, date |-> date,
   cache |-> cache, d |-> d, hit |-> hit,
   history_reads |-> 1, remote_calls |-> remote_calls]

Raised(exc, d, history_reads, remote_calls) ==
  [outcome |-> "raise", exc |-> exc, authors |-> <<>>, date |-> NoDate,
   cache |-> cache_page_authors, d |-> d, hit |-> FALSE,
   history_reads |-> history_reads, remote_calls |-> remote_calls]

\* lines 146-151 with the cache replaced by a dict of the one new record
StoreAndReturnAlone(path, last_commit_date, manual_authors, blame_authors, remote_calls) ==
  LET authors == manual_authors \o blame_authors
  IN  Returned(authors, last_commit_date,
               (path :> [last_commit_date |-> last_commit_date, authors |-> authors]),
               last_commit_date, FALSE, remote_calls)

\* lines 146-151 with the new authors added to the ones the path's record holds
StoreAndReturnMerged(path, last_commit_date, manual_authors, blame_authors, remote_calls) ==
  LET authors == manual_authors \o blame_authors
      stored == IF path \in DOMAIN cache_page_authors
                THEN cache_page_authors[path].authors ELSE <<>>
  IN  Returned(authors, last_commit_date,
               (path :> [last_commit_date |-> last_commit_date, authors |-> stored \o authors])
                 @@ cache_page_authors,
               last_commit_date, FALSE, remote_calls)

\* lines 146-151: the record is stored and returned
StoreAndReturn(path, last_commit_date, manual_authors, blame_authors, remote_calls) ==
  LET authors == manual_authors \o blame_authors
  IN  Returned(authors, last_commit_date,
               (path :> [last_commit_date |-> last_commit_date, authors |-> authors])
                 @@ cache_page_authors,
               last_commit_date, FALSE, remote_calls)

\* the HTTPError is not caught
OnRequestErrorRaise(path, last_commit_date, manual_authors) ==
  Raised("HTTPError", last_commit_date, 1, 1)

\* lines 122-126: HTTPError from raise_for_status, or another error of
\* requests.post, is logged and blame_authors stays empty
OnRequestError(path, last_commit_date, manual_authors) ==
  StoreAndReturn(path, last_commit_date, manual_authors, <<>>, 1)

\* lines 110-151: the remote lookup and what follows it
Lookup(path, last_commit_date, manual_authors, resp) ==
  IF Len(Split(config.repository, "/")) < 2
  THEN \* IndexError while the query is built, caught by except Exception
       StoreAndReturn(path, last_commit_date, manual_authors, <<>>, 0)
  ELSE IF resp.kind # "ok"
  THEN OnRequestError(path, last_commit_date, manual_authors)
  ELSE IF ~Parses(resp)
  THEN Raised(ParseError(resp), last_commit_date, 1, 1)
  ELSE StoreAndReturn(path, last_commit_date, manual_authors,
         SortAuthors(BlameLoop(resp.ranges, 1, <<>>, manual_authors, githuburl)), 1)

\* the early return without last_commit_date set to today's date
NotCommittedNoDate ==
  Returned(<<>>, NoDate, cache_page_authors, NoDate, FALSE, 0)

\* lines 95-97: file not committed yet
NotCommitted ==
  Returned(<<>>, today, cache_page_authors, NoDate, FALSE, 0)

\* line 102: the stored record is returned
ServeCached(path, last_commit_date) ==
  Returned(cache_page_authors[path].authors, cache_page_authors[path].last_commit_date,
           cache_page_authors, last_commit_date, TRUE, 0)

list_contributors(path, meta, resp) ==
  IF ~localrepo
  THEN \* self.localrepo was never set
       Raised("AttributeError", NoDate, 0, 0)
  ELSE LET last_commit_date == LastCommitDate(path)
       IN  IF last_commit_date = NoDate
           THEN NotCommitted
           ELSE IF CacheFresh(path, last_commit_date)
           THEN ServeCached(path, last_commit_date)
           ELSE Lookup(path, last_commit_date,
                       ManualAuthors(meta, githuburl, GithubAvatarUrl), resp)

\* ------------------------------------------------------------- the hooks
on_config(cfg) ==
  /\ pc = "idle"
  /\ builds < MaxBuilds
  /\ builds' = builds + 1
  /\ pc' = "configured"
  /\ config' = cfg
  /\ enabled' = cfg.enabled
  /\ IF cfg.enabled /\ cfg.repository # <<>>
     THEN /\ githuburl' = GithubUrl(cfg.enterprise_hostname)
          /\ localrepo' = TRUE
     ELSE UNCHANGED <<githuburl, localrepo>>
  /\ rendered' = 0
  /\ obs' = [NoObs EXCEPT !.op = "on_config"]
  /\ UNCHANGED <<cache_page_authors, cache_date, file, today, head, touched, saved>>

on_pre_build ==
  /\ pc = "configured"
  /\ IF file.exists /\ file.written # "all"
     THEN \* json.loads raises JSONDecodeError on an empty or cut document, the
          \* exception leaves the hook and mkdocs abandons the build
          /\ pc' = "idle"
          /\ UNCHANGED <<cache_date, cache_page_authors>>
          /\ obs' = [NoObs EXCEPT !.op = "on_pre_build",
                                  !.outcome = "raise", !.exc = "JSONDecodeError",
                                  !.pre_cache = cache_page_authors,
                                  !.pre_cache_date = cache_date]
     ELSE /\ pc' = "pages"
          /\ IF file.exists
             THEN LET cache == Loads(file.text)
                  IN  /\ cache_date' = cache.cache_date
                      /\ cache_page_authors' = cache.page_authors
             ELSE UNCHANGED <<cache_date, cache_page_authors>>
          /\ obs' = [NoObs EXCEPT !.op = "on_pre_build",
                                  !.pre_cache = cache_page_authors,
                                  !.pre_cache_date = cache_date]
  /\ UNCHANGED <<config, enabled, localrepo, githuburl, file, today, head, touched,
                 rendered, builds, saved>>

\* the call of one hook or of list_contributors, as obs records it
Observed(op, path, meta, resp, r, committers) ==
  [op |-> op, path |-> path, meta |-> meta, resp |-> resp,
   outcome |-> r.outcome, exc |-> r.exc, authors |-> r.authors, date |-> r.date,
   committers |-> committers, d |-> r.d, hit |-> r.hit,
   history_reads |-> r.history_reads, remote_calls |-> r.remote_calls,
   pre_cache |-> cache_page_authors, pre_cache_date |-> cache_date]

\* the page is rendered with the plugin disabled: list_contributors is not called
Bypassed ==
  [outcome |-> "return", exc |-> "", authors |-> <<>>, date |-> NoDate,
   cache |-> cache_page_authors, d |-> NoDate, hit |-> FALSE,
   history_reads |-> 0, remote_calls |-> 0]

\* on_page_context without the test of self.enabled
PageAlwaysEnabled == TRUE

\* on_page_context's use of self.enabled
PageEnabled == enabled

on_page_context(src_path, meta, resp) ==
  /\ pc = "pages"
  /\ rendered < Len(PageOrder)
  /\ src_path = PageOrder[rendered + 1]
  /\ LET git_path == GitPath(src_path)
         r == IF PageEnabled THEN list_contributors(git_path, meta, resp) ELSE Bypassed
     IN  /\ cache_page_authors' = r.cache
         /\ obs' = Observed("on_page_context", git_path, meta, resp, r, r.authors)
         /\ IF r.outcome = "raise"
            THEN \* the exception leaves the hook and mkdocs abandons the build
                 /\ pc' = "idle"
                 /\ rendered' = 0
            ELSE /\ pc' = "pages"
                 /\ rendered' = rendered + 1
  /\ UNCHANGED <<config, enabled, localrepo, githuburl, cache_date, file, today, head,
                 touched, builds, saved>>

on_post_build ==
  /\ pc = "pages"
  /\ rendered = Len(PageOrder)
  /\ pc' = "idle"
  /\ file' = WholeFile(Dumps(today, cache_page_authors))
  /\ saved' = [cache_date |-> today, page_authors |-> cache_page_authors]
  /\ touched' = [p \in Paths |-> FALSE]
  /\ rendered' = 0
  /\ obs' = [NoObs EXCEPT !.op = "on_post_build",
                          !.pre_cache = cache_page_authors, !.pre_cache_date = cache_date]
  /\ UNCHANGED <<config, enabled, localrepo, githuburl, cache_page_authors, cache_date,
                 today, head, builds>>

\* ------------------------------------------------------------- the environment
\* mkdocs is started anew: a fresh plugin object
NewProcess ==
  /\ pc = "idle"
  /\ obs.op # "__init__"
  /\ enabled' = NewPlugin.enabled
  /\ localrepo' = NewPlugin.localrepo
  /\ githuburl' = NewPlugin.githuburl
  /\ cache_page_authors' = NewPlugin.cache_page_authors
  /\ cache_date' = NewPlugin.cache_date
  /\ obs' = [NoObs EXCEPT !.op = "__init__"]
  /\ UNCHANGED <<pc, config, file, today, head, touched, rendered, builds, saved>>

\* a commit touching the path becomes the newest one reachable from HEAD; its
\* authored date is today's or, for a commit that was rebased, cherry-picked,
\* amended or merged from a branch, an earlier day's
Commit(path, authored) ==
  /\ pc = "idle"
  /\ authored <= today
  /\ head' = [head EXCEPT ![path] = authored]
  /\ touched' = [touched EXCEPT ![path] = TRUE]
  /\ obs' = [NoObs EXCEPT !.op = "commit"]
  /\ UNCHANGED <<pc, config, enabled, localrepo, githuburl, cache_page_authors,
                 cache_date, file, today, rendered, builds, saved>>

\* midnight
Tick ==
  /\ pc = "idle"
  /\ today < MaxDay
  /\ today' = today + 1
  /\ obs' = [NoObs EXCEPT !.op = "midnight"]
  /\ UNCHANGED <<pc, config, enabled, localrepo, githuburl, cache_page_authors,
                 cache_date, file, head, touched, rendered, builds, saved>>

Next ==
  \/ \E cfg \in Configs : on_config(cfg)
  \/ on_pre_build
  \/ \E src \in SrcPaths, resp \in Responses : on_page_context(src, PageMeta(src), resp)
  \/ on_post_build
  \/ NewProcess
  \/ \E p \in Paths, a \in Days : Commit(p, a)
  \/ Tick

Spec == Init /\ [][Next]_vars

\* ------------------------------------------------------------- one resolution
\* The resolution of the first page of a build, over every kind of front matter
\* and remote answer: the plugin is enabled with a repository, github.com or an
\* enterprise host, no cache file exists, and the page is committed or not.
InitResolve ==
  /\ pc = "pages"
  /\ config \in {cfg \in AllConfigs : cfg.enabled /\ Len(cfg.repository) = 3}
  /\ enabled = TRUE
  /\ localrepo = TRUE
  /\ githuburl = GithubUrl(config.enterprise_hostname)
  /\ cache_page_authors = EmptyDict
  /\ cache_date = NoDate
  /\ file = NoFile
  /\ today = 1
  /\ head \in [Paths -> {NoDate, 1}]
  /\ touched = [p \in Paths |-> head[p] # NoDate]
  /\ rendered = 0
  /\ builds = 1
  /\ saved = Loads(NoFile.text)
  /\ obs = [NoObs EXCEPT !.op = "on_pre_build"]

NextResolve ==
  \E meta \in WideMetas, resp \in WideResponses : on_page_context(PageOrder[1], meta, resp)

SpecResolve == InitResolve /\ [][NextResolve]_vars

\* ------------------------------------------------------------- one save, by steps
\* on_post_build statement by statement, with the process ending between two
\* statements, and the build that follows.  pc is "opened" after line 173 and
\* "written" after line 174.

\* lines 171-173: the document is made, the directory is made,
\* open(..., "w") creates the file or truncates it to length zero
save_open ==
  /\ pc = "pages"
  /\ rendered = Len(PageOrder)
  /\ pc' = "opened"
  /\ file' = [exists |-> TRUE, text |-> Dumps(today, cache_page_authors), written |-> "none"]
  /\ obs' = [NoObs EXCEPT !.op = "open",
                          !.pre_cache = cache_page_authors, !.pre_cache_date = cache_date]
  /\ UNCHANGED <<config, enabled, localrepo, githuburl, cache_page_authors, cache_date,
                 today, head, touched, rendered, builds, saved>>

\* line 174: f.write(json_data) fills the buffers of the file object; what is
\* past their size is written through, so none, part or all of the document
\* is in the file
save_write(written) ==
  /\ pc = "opened"
  /\ pc' = "written"
  /\ file' = [file EXCEPT !.written = written]
  /\ saved' = IF written = "all" THEN Loads(file.text) ELSE saved
  /\ obs' = [NoObs EXCEPT !.op = "write",
                          !.pre_cache = cache_page_authors, !.pre_cache_date = cache_date]
  /\ UNCHANGED <<config, enabled, localrepo, githuburl, cache_page_authors, cache_date,
                 today, head, touched, rendered, builds>>

\* line 175: f.close() flushes the buffers
save_close ==
  /\ pc = "written"
  /\ pc' = "idle"
  /\ file' = WholeFile(file.text)
  /\ saved' = Loads(file.text)
  /\ touched' = [p \in Paths |-> FALSE]
  /\ rendered' = 0
  /\ obs' = [NoObs EXCEPT !.op = "on_post_build",
                          !.pre_cache = cache_page_authors, !.pre_cache_date = cache_date]
  /\ UNCHANGED <<config, enabled, localrepo, githuburl, cache_page_authors, cache_date,
                 today, head, builds>>

\* the process ends inside on_post_build (killed, machine down): the buffers
\* are lost, the file stays as it is, and mkdocs is started anew
Killed ==
  /\ pc \in {"opened", "written"}
  /\ pc' = "idle"
  /\ enabled' = NewPlugin.enabled
  /\ localrepo' = NewPlugin.localrepo
  /\ githuburl' = NewPlugin.githuburl
  /\ cache_page_authors' = NewPlugin.cache_page_authors
  /\ cache_date' = NewPlugin.cache_date
  /\ rendered' = 0
  /\ obs' = [NoObs EXCEPT !.op = "killed"]
  /\ UNCHANGED <<config, file, today, head, touched, builds, saved>>

\* the record list_contributors stores for a page whose lookup got a 404
RecordAfter404(src_path, last_commit_date) ==
  [last_commit_date |-> last_commit_date,
   authors |-> ManualAuthors(PageMeta(src_path), GithubUrl(<<>>), GithubAvatarUrl)]

\* The end of a build that rendered every page with every lookup answered 404:
\* the cache holds a record for each committed page.  The build found no cache
\* file, or the one a build of day 1 without committed pages had left.
InitSave ==
  /\ pc = "pages"
  /\ config = [enabled |-> TRUE, repository |-> <<"owner", "/", "repo">>,
               enterprise_hostname |-> <<>>]
  /\ enabled = TRUE
  /\ localrepo = TRUE
  /\ githuburl = GithubUrl(<<>>)
  /\ today \in Days
  /\ head \in [Paths -> {NoDate} \cup 1..today]
  /\ touched = [p \in Paths |-> head[p] # NoDate]
  /\ cache_page_authors =
       [p \in {GitPath(src) : src \in {q \in SrcPaths : head[GitPath(q)] # NoDate}} |->
          RecordAfter404(SubSeq(p, 2, Len(p)), head[p])]
  /\ file \in {NoFile, WholeFile(Dumps(1, EmptyDict))}
  /\ cache_date = IF file.exists THEN 1 ELSE NoDate
  /\ saved = Loads(file.text)
  /\ rendered = Len(PageOrder)
  /\ builds = MaxBuilds - 1
  /\ obs = [NoObs EXCEPT !.op = "on_page_context"]

NextSave ==
  \/ save_open
  \/ \E written \in {"none", "part", "all"} : save_write(written)
  \/ save_close
  \/ Killed
  \/ \E cfg \in Configs : on_config(cfg)
  \/ on_pre_build

SpecSave == InitSave /\ [][NextSave]_vars

\* ------------------------------------------------------------- calls in a row
\* list_contributors called for a page, and called again, in the page phase of
\* one build: the date, the git history, the configuration and the cache_date
\* stay as they are between the calls.  rendered counts the calls.
resolve(path, meta, resp) ==
  /\ pc = "pages"
  /\ rendered < MaxCalls
  /\ LET r == list_contributors(path, meta, resp)
     IN  /\ cache_page_authors' = r.cache
         /\ obs' = Observed("list_contributors", path, meta, resp, r, r.authors)
         /\ pc' = IF r.outcome = "raise" THEN "idle" ELSE "pages"
  /\ rendered' = rendered + 1
  /\ UNCHANGED <<config, enabled, localrepo, githuburl, cache_date, file, today, head,
                 touched, builds, saved>>

\* The page phase of a build of an enabled plugin with a repository.  The build
\* found no cache file, or loaded the one an earlier build had saved on day
\* cache_date, without records or with the record of docs/a.md after a 404.
InitCalls ==
  /\ pc = "pages"
  /\ config = [enabled |-> TRUE, repository |-> <<"owner", "/", "repo">>,
               enterprise_hostname |-> <<>>]
  /\ enabled = TRUE
  /\ localrepo = TRUE
  /\ githuburl = GithubUrl(<<>>)
  /\ today \in Days
  /\ head \in [Paths -> {NoDate} \cup 1..today]
  /\ touched = [p \in Paths |-> FALSE]
  /\ cache_date \in {NoDate} \cup 1..today
  /\ cache_page_authors \in
       {EmptyDict} \cup
       {(GitPath(PageOrder[1]) :> RecordAfter404(PageOrder[1], l)) : l \in 1..cache_date}
  /\ file = IF cache_date = NoDate THEN NoFile
            ELSE WholeFile(Dumps(cache_date, cache_page_authors))
  /\ saved = Loads(file.text)
  /\ rendered = 0
  /\ builds = 1
  /\ obs = [NoObs EXCEPT !.op = "on_pre_build"]

NextCalls ==
  \E src \in SrcPaths, resp \in Responses : resolve(GitPath(src), PageMeta(src), resp)

SpecCalls == InitCalls /\ [][NextCalls]_vars

\* ------------------------------------------------------------- properties
\* the usernames a page declares, in order
Declared(meta) == IF meta.has_authors THEN Split(meta.authors, ",") ELSE <<>>

Logins(authors) == [i \in 1..Len(authors) |-> authors[i].login]

\* the author list is the manual authors of the page and nothing else
ManualOnly(authors, meta) ==
  /\ Logins(authors) = Declared(meta)
  /\ \A i \in 1..Len(authors) :
       /\ authors[i].name = authors[i].login
       /\ authors[i].url = githuburl \o authors[i].login
       /\ authors[i].avatar = GithubAvatarUrl \o authors[i].login

\* the last hook call was on_page_context and its history walk (lines 88-92) ran
Walked == obs.op = "on_page_context" /\ obs.history_reads = 1

\* the stored record of the page was fresh when the call was made: a record
\* existed, cacheDate was set, and the last-commit date was before cacheDate
WasFresh ==
  /\ head[obs.path] # NoDate
  /\ obs.path \in DOMAIN obs.pre_cache
  /\ obs.pre_cache_date # NoDate
  /\ head[obs.path] < obs.pre_cache_date

\* C1: when the history walk of a call yields a last-commit date d for the path,
\* a record for the path is in the cache, cacheDate is set and d is strictly
\* earlier than cacheDate, list_contributors returns exactly the stored authors
\* and last_commit_date, issues no remote lookup and leaves the in-memory cache
\* as it was.
C1_FreshServesStored ==
  (Walked /\ WasFresh) =>
    /\ obs.outcome = "return"
    /\ obs.authors = obs.pre_cache[obs.path].authors
    /\ obs.date = obs.pre_cache[obs.path].last_commit_date
    /\ obs.remote_calls = 0
    /\ cache_page_authors = obs.pre_cache

\* a fresh record with authors in it was served
C1_Witness ==
  /\ Walked /\ WasFresh
  /\ obs.pre_cache[obs.path].authors # <<>>
  /\ obs.authors = obs.pre_cache[obs.path].authors

\* C2: when the history walk finds no commit touching the path, list_contributors
\* returns ([], today), makes no remote lookup, ignores the declared manual
\* authors and leaves the cache without a new or changed record.
C2_NotCommittedEmptyToday ==
  (Walked /\ head[obs.path] = NoDate) =>
    /\ obs.outcome = "return"
    /\ obs.authors = <<>>
    /\ obs.date = today
    /\ obs.remote_calls = 0
    /\ cache_page_authors = obs.pre_cache

\* a page that declares authors and is not committed was resolved
C2_Witness ==
  /\ Walked /\ head[obs.path] = NoDate
  /\ Declared(obs.meta) # <<>>
  /\ obs.authors = <<>>

\* C3: when the remote lookup answers with an HTTP 4xx/5xx status,
\* list_contributors raises nothing and returns exactly the page's manual
\* authors with the path's last-commit date, and the build goes on (mkdocs is
\* still rendering pages).
C3_HttpErrorManualOnly ==
  (obs.op = "on_page_context" /\ obs.remote_calls = 1 /\ obs.resp.kind = "http_error") =>
    /\ obs.outcome = "return"
    /\ ManualOnly(obs.authors, obs.meta)
    /\ obs.date = head[obs.path]
    /\ pc = "pages"

\* a 404 for a page that declares authors, with a page still to render
C3_Witness ==
  /\ obs.op = "on_page_context" /\ obs.remote_calls = 1
  /\ obs.resp.kind = "http_error" /\ obs.resp.status = 404
  /\ obs.authors # <<>>
  /\ pc = "pages" /\ rendered < Len(PageOrder)

\* C4: when the lookup gets a 200 whose body is malformed (not JSON, or a level
\* of data.repository.ref.target.blame.ranges or a range's commit author missing
\* or null), no exception leaves list_contributors, the result is the manual
\* authors only and the build goes on.
C4_MalformedBodyManualOnly ==
  (obs.op = "on_page_context" /\ obs.remote_calls = 1 /\ obs.resp.kind = "ok"
     /\ ~Parses(obs.resp)) =>
    /\ obs.outcome = "return"
    /\ ManualOnly(obs.authors, obs.meta)
    /\ pc = "pages"

\* C5: with the plugin enabled and the repository option empty, every page
\* resolution completes without an exception, yields the page's manual authors
\* only and makes no remote lookup.
C5_NoRepositoryManualOnly ==
  (obs.op = "on_page_context" /\ enabled /\ config.repository = <<>>) =>
    /\ obs.outcome = "return"
    /\ ManualOnly(obs.authors, obs.meta)
    /\ obs.remote_calls = 0

\* the call walked the history, found the path committed, did not serve the
\* stored record and returned
Resolved ==
  /\ Walked /\ head[obs.path] # NoDate /\ ~WasFresh
  /\ obs.outcome = "return"

\* the logins the remote answer carries
ResponseLogins(resp) ==
  IF resp.kind = "ok" /\ Parses(resp)
  THEN {resp.ranges[i].user.login : i \in {j \in 1..Len(resp.ranges) : resp.ranges[j].has_user}}
  ELSE {}

\* the logins declared and carried by the remote answer as well
InBoth(meta, resp) ==
  {Declared(meta)[i] : i \in 1..Len(Declared(meta))} \cap ResponseLogins(resp)

Occurrences(logins, login) == Cardinality({i \in 1..Len(logins) : logins[i] = login})

\* the author is the one made of a declared username
IsManual(author) ==
  /\ author.name = author.login
  /\ author.url = githuburl \o author.login
  /\ author.avatar = GithubAvatarUrl \o author.login

\* C6 as claimed: for a login in both the manual list and the remote answer, the
\* returned list holds exactly one Author with that login, the manual one.
C6_ExactlyOneManual ==
  Resolved =>
    \A login \in InBoth(obs.meta, obs.resp) :
      /\ Occurrences(Logins(obs.authors), login) = 1
      /\ \A i \in 1..Len(obs.authors) :
           obs.authors[i].login = login => IsManual(obs.authors[i])

\* C6 amended: for a login in both the manual list and the remote answer, the
\* returned list holds no remote Author with that login: it holds one Author with
\* that login for each time the login is declared (exactly one when it is
\* declared once), each of them the manual one.
C6_NoRemoteDuplicateOfManual ==
  Resolved =>
    \A login \in InBoth(obs.meta, obs.resp) :
      /\ Occurrences(Logins(obs.authors), login) = Occurrences(Declared(obs.meta), login)
      /\ \A i \in 1..Len(obs.authors) :
           obs.authors[i].login = login => IsManual(obs.authors[i])

\* a login declared once that the remote answer carries too, next to a remote
\* author that was kept
C6_Witness ==
  /\ Resolved
  /\ \E login \in InBoth(obs.meta, obs.resp) :
       /\ Occurrences(Declared(obs.meta), login) = 1
       /\ Occurrences(Logins(obs.authors), login) = 1
  /\ Len(obs.authors) > Len(Declared(obs.meta))

\* C7: the returned list is the manual authors in their declared order followed
\* by the remote authors, the remote authors in non-decreasing order of their
\* login lowercased, whatever the logins of the manual authors.
C7_ManualThenSortedRemote ==
  Resolved =>
    LET m == Len(Declared(obs.meta))
        n == Len(obs.authors)
    IN  /\ n >= m
        /\ Logins(SubSeq(obs.authors, 1, m)) = Declared(obs.meta)
        /\ \A i \in 1..m : IsManual(obs.authors[i])
        /\ \A i \in (m + 1)..n :
             /\ obs.authors[i].login \in ResponseLogins(obs.resp)
             /\ Occurrences(Declared(obs.meta), obs.authors[i].login) = 0
        /\ \A i \in (m + 1)..n : \A j \in (i + 1)..n :
             ~StrLess(Lower(obs.authors[j].login), Lower(obs.authors[i].login))

\* the manual author b comes first, then the remote a and B, which the answer
\* carried as B, a
C7_Witness ==
  /\ Resolved
  /\ Declared(obs.meta) = <<(<<"b">>)>>
  /\ Logins(obs.authors) = <<(<<"b">>), (<<"a">>), (<<"B">>)>>
  /\ obs.resp.ranges[1].user.login = <<"B">>

\* C8: whenever list_contributors returns a stored record through the cache
\* short-circuit, no commit touching the path landed after the save that wrote
\* the loaded cacheDate.
C8_ServedOnlyIfUntouched ==
  (obs.op = "on_page_context" /\ obs.hit) => ~touched[obs.path]

\* C9: after on_pre_build has loaded the file on_post_build wrote, the in-memory
\* cacheDate and records equal the date and the records that were saved.
C9_SaveLoadRoundTrip ==
  (obs.op = "on_pre_build" /\ file.exists) =>
    /\ cache_date = saved.cache_date
    /\ cache_page_authors = saved.page_authors

\* a new process loaded a file that holds a record with authors for every page
C9_Witness ==
  /\ obs.op = "on_pre_build" /\ file.exists
  /\ obs.pre_cache = EmptyDict
  /\ DOMAIN saved.page_authors = Paths
  /\ \A p \in Paths : Len(saved.page_authors[p].authors) >= 1
  /\ DOMAIN cache_page_authors = Paths

\* C10: with enabled false a page gets an empty committers list, and rendering
\* it reads no history, makes no remote lookup and leaves the in-memory cache
\* records as they were.
C10_DisabledBypasses ==
  (obs.op = "on_page_context" /\ ~enabled) =>
    /\ obs.outcome = "return"
    /\ obs.committers = <<>>
    /\ obs.history_reads = 0
    /\ obs.remote_calls = 0
    /\ cache_page_authors = obs.pre_cache

\* a committed page that declares authors, rendered by a disabled plugin that an
\* earlier build of the same process had configured
C10_Witness ==
  /\ obs.op = "on_page_context" /\ ~enabled
  /\ localrepo
  /\ head[obs.path] # NoDate
  /\ Declared(obs.meta) # <<>>
  /\ obs.committers = <<>>

\* C11: the manual author parser yields no author when the page's authors field
\* is absent or is the empty string, and a resolution of a committed page that
\* is not served from the cache, with such a field and a remote answer that
\* carries no login, returns the empty author list.
C11_EmptyFieldNoAuthors ==
  (Resolved /\ (~obs.meta.has_authors \/ obs.meta.authors = <<>>)) =>
    /\ ManualAuthors(obs.meta, githuburl, GithubAvatarUrl) = <<>>
    /\ ResponseLogins(obs.resp) = {} => obs.authors = <<>>

\* C12: for a path with commit history, list_contributors serves the stored
\* record if and only if a record exists for the path, cacheDate is set and the
\* last-commit date d is strictly before cacheDate; in every other case it makes
\* exactly one remote lookup, stores {last_commit_date: d, authors: manual ++
\* remote} under the path and returns those authors and d.
C12_HitIffFreshElseOneLookup ==
  (Walked /\ head[obs.path] # NoDate) =>
    /\ obs.hit <=> WasFresh
    /\ ~WasFresh =>
         LET manual == ManualAuthors(obs.meta, githuburl, GithubAvatarUrl)
         IN  /\ obs.outcome = "return"
             /\ obs.remote_calls = 1
             /\ obs.date = head[obs.path]
             /\ Len(obs.authors) >= Len(manual)
             /\ SubSeq(obs.authors, 1, Len(manual)) = manual
             /\ \A i \in (Len(manual) + 1)..Len(obs.authors) :
                  obs.authors[i].login \in ResponseLogins(obs.resp)
             /\ obs.path \in DOMAIN cache_page_authors
             /\ cache_page_authors[obs.path] =
                  [last_commit_date |-> head[obs.path], authors |-> obs.authors]

\* C13: the save is atomic for the cache file: at every point of on_post_build,
\* and after the process has ended between two of its statements, the file is
\* absent or holds a whole document, the one of the last completed save or the
\* new one, and the on_pre_build that follows reads a whole document.
C13_SaveAtomic ==
  /\ file.exists => (file.written = "all" /\ Loads(file.text) = saved)
  /\ obs.op = "on_pre_build" => obs.outcome = "return"

\* C14: when list_contributors has returned for a path and is called again for
\* it in the same build with the same last-commit date, page metadata and remote
\* answer, the second call returns the same authors and date as the first and
\* leaves the in-memory cache as the first call left it, whether it serves the
\* stored record or makes the lookup again.
C14_ReResolveIdempotent ==
  [][(/\ obs.op = "list_contributors" /\ obs.outcome = "return"
      /\ obs'.op = "list_contributors"
      /\ obs'.path = obs.path /\ obs'.meta = obs.meta /\ obs'.resp = obs.resp)
     => (/\ obs'.outcome = "return"
         /\ obs'.authors = obs.authors
         /\ obs'.date = obs.date
         /\ cache_page_authors' = cache_page_authors)]_vars

\* a second call that made the lookup again, found the record the first call had
\* stored, with a remote author in it, and returned the same
C14_Witness ==
  /\ obs.op = "list_contributors" /\ rendered = 2
  /\ ~obs.hit /\ obs.remote_calls = 1
  /\ obs.path \in DOMAIN obs.pre_cache
  /\ obs.pre_cache[obs.path] = [last_commit_date |-> obs.date, authors |-> obs.authors]
  /\ Len(obs.authors) > Len(Declared(obs.meta))

\* C15: in every build, also a later build of the same plugin object, when
\* on_pre_build has returned no page of the build has been resolved yet, and the
\* in-memory cache_date and records equal the content of the cache file, or are
\* empty ('' and no record) when there is no cache file.
C15_LoadedEqualsFileOrEmpty ==
  (obs.op = "on_pre_build" /\ obs.outcome = "return") =>
    /\ rendered = 0
    /\ IF file.exists
       THEN /\ cache_date = Loads(file.text).cache_date
            /\ cache_page_authors = Loads(file.text).page_authors
       ELSE /\ cache_date = NoDate
            /\ cache_page_authors = EmptyDict

\* C16: over any sequence of builds, enabled or disabled, and commits, when
\* list_contributors serves a stored record, the last_commit_date it returns is
\* the last-commit date d the call has just read from the history.
C16_ServedDateIsCurrent ==
  (obs.op = "on_page_context" /\ obs.hit) => obs.date = obs.d

\* the record holds the manual authors of the path's page and no remote author.
\* Every answer of Responses that list_contributors parses carries two logins or
\* more that a page does not declare, so such a record was stored by a call
\* whose lookup failed (lines 122-126).
StoredAfterFailure(path, record) ==
  record.authors =
    ManualAuthors(PageMeta(SubSeq(path, 2, Len(path))), githuburl, GithubAvatarUrl)

\* C17: a record stored by a call whose remote lookup failed (HTTP error or
\* another caught error) is not served from the cache: a later build that
\* resolves the path does not return it through the short-circuit of line 102.
C17_FailedRecordNotServed ==
  (/\ Walked /\ head[obs.path] # NoDate
   /\ obs.path \in DOMAIN obs.pre_cache
   /\ StoredAfterFailure(obs.path, obs.pre_cache[obs.path]))
    => ~obs.hit

\* C18: a build with enabled false leaves the cache file as it was: its
\* on_post_build, the one hook of a build that writes the file, changes neither
\* cache_date nor page_authors in it and creates no file where none was.
C18_DisabledBuildKeepsFile ==
  [][(obs'.op = "on_post_build" /\ ~enabled) => file' = file]_vars

\* C19: a call of list_contributors for a path, through on_page_context, changes
\* at most the in-memory record of that path: the record of every other path is
\* as it was (present or absent alike), self.cache_date is as it was and the
\* cache file is not written, whether the call served the stored record, made a
\* lookup that succeeded or failed, or raised.
C19_ResolveTouchesOnePath ==
  [][obs'.op = "on_page_context" =>
       /\ \A q \in Paths \ {obs'.path} :
            /\ (q \in DOMAIN cache_page_authors') <=> (q \in DOMAIN cache_page_authors)
            /\ q \in DOMAIN cache_page_authors => cache_page_authors'[q] = cache_page_authors[q]
       /\ cache_date' = cache_date
       /\ file' = file]_vars

\* docs/b.md was resolved by a lookup and its record stored, with the file
\* present and the record of docs/a.md in the cache before and after the call
C19_Witness ==
  /\ obs.op = "on_page_context" /\ obs.remote_calls = 1 /\ obs.outcome = "return"
  /\ file.exists
  /\ \E q \in Paths \ {obs.path} :
       /\ q \in DOMAIN obs.pre_cache
       /\ q \in DOMAIN cache_page_authors
       /\ cache_page_authors[q] = obs.pre_cache[q]
       /\ Len(cache_page_authors[q].authors) >= 1
  /\ obs.path \in DOMAIN cache_page_authors
  /\ obs.path \notin DOMAIN obs.pre_cache

====
